---- MODULE Spec2Model ----
(***************************************************************************)
(* A model of kerykeion/charts/charts_utils.py: the pure chart-drawing     *)
(* helpers (degreeDiff, the ring, house, aspect and summary renderers).    *)
(*                                                                         *)
(* Every function is modelled as one call: a state with pc = "call" holds  *)
(* the function name and its arguments, the function's action computes the *)
(* returned value (pc = "done") or the raised exception (pc = "raised").   *)
(*                                                                         *)
(* Numbers.  Angles are Python int/float values.  They are modelled as     *)
(* fixed-point numbers: an angle of d degrees is the integer d * Scale, so *)
(* with Scale = 2 the model distinguishes half degrees.  int() is modelled *)
(* by what it does (truncation towards zero), see int.  Radii and pixel    *)
(* positions are plain integers.                                           *)
(*                                                                         *)
(* Points.  sliceToX/sliceToY are trigonometric; a projected point         *)
(* (sliceToX(s, rad, off) + shift, sliceToY(s, rad, off) + shift) is       *)
(* modelled by the arguments of that projection, see Point.                *)
(*                                                                         *)
(* Markup.  A returned SVG string is modelled as the sequence of its       *)
(* elements, each a record of the attributes the code writes into it.      *)
(***************************************************************************)
EXTENDS Integers, Sequences, FiniteSets, TLC

VARIABLES fn, args, pc, out

vars == <<fn, args, pc, out>>

(***************************************************************************)
(* Bounds of the model.                                                    *)
(***************************************************************************)
\* angles are multiples of 1/Scale degree
Scale == 2
\* degreeDiff is tried on arguments up to MaxTurns full turns outside [0,360)
MaxTurns == 1
\* the aspect grid is drawn for up to MaxPlanets planets and MaxAspects aspects
MaxPlanets == 3
MaxAspects == 2
\* each element total of the summary is at most MaxPoints
MaxPoints == 3
\* the values given to the degree formatters are multiples of 1/Resolution
\* degree (half an arc second), below MaxCoord degrees
Resolution == 7200
MaxCoord == 2

(***************************************************************************)
(* Numbers                                                                 *)
(***************************************************************************)
\* d whole degrees as a fixed-point angle
Deg(d) == d * Scale

FullTurn == Deg(360)

\* the angles of [0, 360)
Degrees == 0 .. (FullTurn - 1)

Abs(x) == IF x < 0 THEN -x ELSE x

\* Python's int() of a float: truncation towards zero; the result is the
\* fixed-point form of that whole number
int(x) == IF x >= 0 THEN (x \div Scale) * Scale ELSE -(((-x) \div Scale) * Scale)

\* an absent (None) and a present optional argument
None == [some |-> FALSE]

Some(v) == [some |-> TRUE, val |-> v]

IsNone(x) == ~x.some

(***************************************************************************)
(* degreeDiff                                                              *)
(***************************************************************************)
\* mutant: the fold at 180 is lost
degreeDiff_NoFold(a, b) ==
  LET out1 == IF a > b THEN a - b ELSE 0
      out2 == IF a < b THEN b - a ELSE out1
  IN  out2

degreeDiff(a, b) ==
  LET out1 == IF a > b THEN a - b ELSE 0
      out2 == IF a < b THEN b - a ELSE out1
  IN  IF out2 > Deg(180) THEN FullTurn - out2 ELSE out2

\* arguments of degreeDiff: every quarter turn from MaxTurns turns below 0 to
\* MaxTurns turns above 360, and the angles one step beside it
DiffInputs ==
  { q * Deg(90) + e : q \in (-4 * MaxTurns) .. (4 * (MaxTurns + 1)), e \in -1 .. 1 }

InitDiff ==
  /\ fn = "degreeDiff"
  /\ pc = "call"
  /\ args \in [a : DiffInputs, b : DiffInputs]
  /\ out = None

CallDegreeDiff ==
  /\ fn = "degreeDiff"
  /\ pc = "call"
  /\ out' = Some(degreeDiff(args.a, args.b))
  /\ pc' = "done"
  /\ UNCHANGED <<fn, args>>

NextDiff == CallDegreeDiff

SpecDiff == InitDiff /\ [][NextDiff]_vars

(***************************************************************************)
(* C1                                                                      *)
(***************************************************************************)
DiffDone == fn = "degreeDiff" /\ pc = "done"

\* C1 (as stated): for all numeric a and b, also outside [0,360),
\* degreeDiff(a, b) = degreeDiff(b, a) and 0 <= degreeDiff(a, b) <= 180.
C1_Original ==
  DiffDone =>
    /\ out.val = degreeDiff(args.b, args.a)
    /\ 0 <= out.val
    /\ out.val <= Deg(180)

\* C1 (amended): degreeDiff(a, b) = degreeDiff(b, a) for all a and b, and
\* 0 <= degreeDiff(a, b) <= 180 whenever a and b are at most 360 degrees
\* apart, which covers all a, b in [0,360).
C1_SymmetricAndFolded ==
  DiffDone =>
    /\ out.val = degreeDiff(args.b, args.a)
    /\ Abs(args.a - args.b) <= FullTurn => (0 <= out.val /\ out.val <= Deg(180))

\* C1 witness: a call whose arguments are more than 180 and at most 360 apart,
\* one of them outside [0,360), has returned the folded difference
C1_Witness ==
  /\ DiffDone
  /\ args.a \notin Degrees
  /\ args.a - args.b > Deg(180)
  /\ args.a - args.b <= FullTurn
  /\ out.val = FullTurn - (args.a - args.b)

(***************************************************************************)
(* Projected points                                                        *)
(***************************************************************************)
\* the point (sliceToX(slice, radius, offset) + shift,
\*            sliceToY(slice, radius, offset) + shift)
Point(slice, radius, offset, shift) ==
  [slice |-> slice, radius |-> radius, offset |-> offset, shift |-> shift]

\* the angle sliceToX and sliceToY take the cosine and sine of,
\* (pi / 6) * slice + (pi * offset) / 180, in fixed-point degrees
Radial(p) == Deg(30) * p.slice + p.offset

(***************************************************************************)
(* draw_houses_cusps_and_text_number                                       *)
(***************************************************************************)
ChartTypes == {"Natal", "ExternalNatal", "Synastry", "Transit"}

\* chart_type == "Transit" or chart_type == "Synastry"
IsDual(chart_type) == chart_type = "Transit" \/ chart_type = "Synastry"

\* the Python list element l[i], i counted from 0
At(l, i) == l[i + 1]

\* int(x / 2) of a fixed-point x
intHalf(x) ==
  IF x >= 0 THEN (x \div (2 * Scale)) * Scale ELSE -(((-x) \div (2 * Scale)) * Scale)

HousesMissingSecond(a) ==
  IsDual(a.chart_type) /\ IsNone(a.second_subject_houses_list_ut)

\* dropin and roff of the primary cusp line
CuspDropin(a) == IF IsDual(a.chart_type) THEN 160 ELSE a.c3

CuspRoff(a) == IF IsDual(a.chart_type) THEN 72 ELSE a.c1

\* offset is negative desc houses_degree_ut[6]
HouseOffset(first, i) == (-int(At(first, 6))) + int(At(first, i))

\* mutant: the last house takes no next cusp, its label stays on its cusp line
HouseTextOffset_NoWrap(first, i, offset) ==
  IF i < 11
    THEN offset + intHalf(degreeDiff(At(first, i + 1), At(first, i)))
    ELSE offset

HouseTextOffset(first, i, offset) ==
  IF i < 11
    THEN offset + intHalf(degreeDiff(At(first, i + 1), At(first, i)))
    ELSE offset + intHalf(degreeDiff(At(first, 0), At(first, 11)))

\* mc, asc, dsc, ic
HouseLineColor(a, i) ==
  IF i = 0 THEN a.first_house_color
  ELSE IF i = 9 THEN a.tenth_house_color
  ELSE IF i = 6 THEN a.seventh_house_color
  ELSE IF i = 3 THEN a.fourth_house_color
  ELSE a.standard_house_color

\* zeropoint plus the overlay cusp, brought back once by 360
TransitOffset(first, second, i) ==
  LET zeropoint == FullTurn - At(first, 6)
      t_offset  == zeropoint + At(second, i)
  IN  IF t_offset > FullTurn THEN t_offset - FullTurn ELSE t_offset

TransitTextOffset(second, i, t_offset) ==
  IF i < 11
    THEN t_offset + intHalf(degreeDiff(At(second, i + 1), At(second, i)))
    ELSE t_offset + intHalf(degreeDiff(At(second, 0), At(second, 11)))

TransitLineColor(a, i) ==
  IF i = 0 \/ i = 9 \/ i = 6 \/ i = 3
    THEN HouseLineColor(a, i)
    ELSE a.standard_house_color

\* mutant: the label of a single chart is placed with the caller's c3
LabelDropin_FromC3(a) ==
  IF IsDual(a.chart_type) THEN 84
  ELSE a.c3

\* the dropin of the primary house-number label
LabelDropin(a) ==
  IF IsDual(a.chart_type) THEN 84
  ELSE IF a.chart_type = "ExternalNatal" THEN 100
  ELSE 48

\* the t_roff of the overlay cusp line
TransitRoff == 36

\* the inset of the overlay house-number label
TransitLabelInset == 8

\* the overlay's label and cusp line of house i (Transit and Synastry only)
TransitFragments(a, i) ==
  LET first    == a.first_subject_houses_list_ut
      second   == a.second_subject_houses_list_ut.val
      t_offset == TransitOffset(first, second, i)
      t_text   == TransitTextOffset(second, i, t_offset)
      transit  == a.chart_type = "Transit"
  IN  << [node    |-> "HouseNumber",
          at      |-> Point(0, a.r - TransitLabelInset, t_text, TransitLabelInset),
          fill    |-> "#00f",
          opacity |-> IF transit THEN "0" ELSE ".4",
          text    |-> i + 1],
         [node    |-> "Cusp",
          p1      |-> Point(0, a.r - TransitRoff, t_offset, TransitRoff),
          p2      |-> Point(0, a.r, t_offset, 0),
          stroke  |-> TransitLineColor(a, i),
          dash    |-> "none",
          opacity |-> IF transit THEN "0" ELSE ".3"] >>

\* mutant: the cusp line of the last house is skipped
PrimaryFragments_DropsLast(a, i) ==
  LET first  == a.first_subject_houses_list_ut
      offset == HouseOffset(first, i)
      text   == HouseTextOffset(first, i, offset)
      cusp   == [node    |-> "Cusp",
                 p1      |-> Point(0, a.r - CuspDropin(a), offset, CuspDropin(a)),
                 p2      |-> Point(0, a.r - CuspRoff(a), offset, CuspRoff(a)),
                 stroke  |-> HouseLineColor(a, i),
                 dash    |-> "3,2",
                 opacity |-> ".4"]
      label  == [node    |-> "HouseNumber",
                 at      |-> Point(0, a.r - LabelDropin(a), text, LabelDropin(a)),
                 fill    |-> "#f00",
                 opacity |-> ".6",
                 text    |-> i + 1]
  IN  IF i = 11 THEN << label >> ELSE << cusp, label >>

\* the primary chart's cusp line and label of house i
PrimaryFragments(a, i) ==
  LET first  == a.first_subject_houses_list_ut
      offset == HouseOffset(first, i)
      text   == HouseTextOffset(first, i, offset)
  IN  << [node    |-> "Cusp",
          p1      |-> Point(0, a.r - CuspDropin(a), offset, CuspDropin(a)),
          p2      |-> Point(0, a.r - CuspRoff(a), offset, CuspRoff(a)),
          stroke  |-> HouseLineColor(a, i),
          dash    |-> "3,2",
          opacity |-> ".4"],
         [node    |-> "HouseNumber",
          at      |-> Point(0, a.r - LabelDropin(a), text, LabelDropin(a)),
          fill    |-> "#f00",
          opacity |-> ".6",
          text    |-> i + 1] >>

\* one pass of the loop body
HouseFragments(a, i) ==
  (IF IsDual(a.chart_type) THEN TransitFragments(a, i) ELSE << >>)
    \o PrimaryFragments(a, i)

\* for i in range(xr): path += ...
RECURSIVE HousesPath(_, _)
HousesPath(a, i) ==
  IF i = 12 THEN << >> ELSE HouseFragments(a, i) \o HousesPath(a, i + 1)

(***************************************************************************)
(* The house cusp lists the renderers are tried on                         *)
(***************************************************************************)
\* how far each cusp of an uneven house system lies from the cusp of equal
\* 30 degree houses, in fixed-point steps (opposite houses are equally wide)
Skew == << 0, -9, -13, 0, 13, 9, 0, -9, -13, 0, 13, 9 >>

\* 12 cusps in [0,360), ascending around the circle from the ascendant asc;
\* uneven = 0 gives equal houses
HouseList(asc, uneven) ==
  [ k \in 1 .. 12 |-> (asc + Deg(30) * (k - 1) + uneven * Skew[k]) % FullTurn ]

\* ascendants: around 0, 90, 180 and 360 degrees, whole and fractional
Ascendants ==
  { 0, 1, Deg(90), Deg(180) - 1, Deg(180), Deg(180) + 1, FullTurn - 1 }

HouseLists == { HouseList(asc, uneven) : asc \in Ascendants, uneven \in 0 .. 1 }

\* the outer radius r
Radii == { 240 }

\* the caller's c1 and c3
C1Values == { 0, 56 }

C3Values == { 112, 120 }

HousesArgs ==
  [ r                             : Radii,
    first_subject_houses_list_ut  : HouseLists,
    standard_house_color          : { "standard_house_color" },
    first_house_color             : { "first_house_color" },
    tenth_house_color             : { "tenth_house_color" },
    seventh_house_color           : { "seventh_house_color" },
    fourth_house_color            : { "fourth_house_color" },
    c1                            : C1Values,
    c3                            : C3Values,
    chart_type                    : ChartTypes,
    second_subject_houses_list_ut : { None } \cup { Some(l) : l \in HouseLists } ]

KerykeionException(msg) == [exception |-> "KerykeionException", msg |-> msg]

InitHouses ==
  /\ fn = "draw_houses_cusps_and_text_number"
  /\ pc = "call"
  /\ args \in HousesArgs
  /\ out = None

CallHouses ==
  /\ fn = "draw_houses_cusps_and_text_number"
  /\ pc = "call"
  /\ IF HousesMissingSecond(args)
       THEN /\ pc' = "raised"
            /\ out' = KerykeionException("second_subject_houses_list is None")
       ELSE /\ pc' = "done"
            /\ out' = Some(HousesPath(args, 0))
  /\ UNCHANGED <<fn, args>>

NextHouses == CallHouses

SpecHouses == InitHouses /\ [][NextHouses]_vars

(***************************************************************************)
(* draw_first_circle, draw_second_circle                                   *)
(***************************************************************************)
\* mutant: the first circle takes the second circle's fixed offset
FirstCircleOffset_AsSecond(a) == IF IsDual(a.chart_type) THEN 72 ELSE a.c1.val

\* what draw_first_circle subtracts from r
FirstCircleOffset(a) == IF IsDual(a.chart_type) THEN 36 ELSE a.c1.val

\* what draw_second_circle subtracts from r
SecondCircleOffset(a) == IF IsDual(a.chart_type) THEN 72 ELSE a.c2.val

Circle(r, radius, stroke, fill) ==
  [node |-> "circle", cx |-> r, cy |-> r, r |-> radius, stroke |-> stroke, fill |-> fill]

FirstCircleArgs ==
  [ r            : Radii,
    stroke_color : { "stroke_color" },
    chart_type   : ChartTypes,
    c1           : { None } \cup { Some(c) : c \in C1Values } ]

\* the caller's c2
C2Values == { 36, 92 }

SecondCircleArgs ==
  [ r            : Radii,
    stroke_color : { "stroke_color" },
    fill_color   : { "fill_color" },
    chart_type   : ChartTypes,
    c2           : { None } \cup { Some(c) : c \in C2Values } ]

InitCircles ==
  /\ pc = "call"
  /\ out = None
  /\ \/ fn = "draw_first_circle" /\ args \in FirstCircleArgs
     \/ fn = "draw_second_circle" /\ args \in SecondCircleArgs

CallFirstCircle ==
  /\ fn = "draw_first_circle"
  /\ pc = "call"
  /\ IF ~IsDual(args.chart_type) /\ IsNone(args.c1)
       THEN /\ pc' = "raised"
            /\ out' = KerykeionException("c1 is None")
       ELSE /\ pc' = "done"
            /\ out' = Some(Circle(args.r, args.r - FirstCircleOffset(args),
                                  args.stroke_color, "none"))
  /\ UNCHANGED <<fn, args>>

CallSecondCircle ==
  /\ fn = "draw_second_circle"
  /\ pc = "call"
  /\ IF ~IsDual(args.chart_type) /\ IsNone(args.c2)
       THEN /\ pc' = "raised"
            /\ out' = KerykeionException("c2 is None")
       ELSE /\ pc' = "done"
            /\ out' = Some(Circle(args.r, args.r - SecondCircleOffset(args),
                                  args.stroke_color, args.fill_color))
  /\ UNCHANGED <<fn, args>>

NextCircles == CallFirstCircle \/ CallSecondCircle

\* the functions that raise on a missing chart-type-conditional parameter
InitRequired == InitCircles \/ InitHouses

NextRequired == CallFirstCircle \/ CallSecondCircle \/ CallHouses

SpecRequired == InitRequired /\ [][NextRequired]_vars

(***************************************************************************)
(* C2                                                                      *)
(***************************************************************************)
HousesDone == fn = "draw_houses_cusps_and_text_number" /\ pc = "done"

IsCusp(f) == f.node = "Cusp"

IsLabel(f) == f.node = "HouseNumber"

\* the primary chart's fragments are the dashed cusp lines and the red labels
IsPrimaryCusp(f) == IsCusp(f) /\ f.dash = "3,2"

IsPrimaryLabel(f) == IsLabel(f) /\ f.fill = "#f00"

\* the color the claim gives the cusp line of house index i
ClaimedColor(a, i) ==
  CASE i = 0 -> a.first_house_color
    [] i = 3 -> a.fourth_house_color
    [] i = 6 -> a.seventh_house_color
    [] i = 9 -> a.tenth_house_color
    [] OTHER -> a.standard_house_color

\* the fragments of the path are those of house 0, then of house 1, ...: with
\* perHouse fragments for each house, the fragment at place j is of house
\* (j - 1) \div perHouse; every label shows that house's number and every cusp
\* line has that house's color
InHouseOrder(path, a, perHouse) ==
  \A j \in 1 .. Len(path) :
    LET i == (j - 1) \div perHouse
    IN  /\ IsLabel(path[j]) => path[j].text = i + 1
        /\ IsCusp(path[j]) => path[j].stroke = ClaimedColor(a, i)

\* C2 (as stated): for every chart type the output holds exactly 12 cusp-line
\* fragments and exactly 12 label fragments, in house-index order, the cusp
\* lines of index 0, 3, 6, 9 in the first, fourth, seventh, tenth house color
\* and all others in the standard color.
C2_Original ==
  HousesDone =>
    /\ Len(SelectSeq(out.val, IsCusp)) = 12
    /\ Len(SelectSeq(out.val, IsLabel)) = 12
    /\ InHouseOrder(out.val, args, 2)

\* C2 (amended): for every chart type the output holds exactly 12 cusp-line
\* and 12 label fragments of the primary chart; for Natal and ExternalNatal
\* these are all its fragments, for Synastry and Transit it holds 12 more
\* cusp-line and 12 more label fragments of the overlay chart (24 of each
\* node); the fragments come in house-index order and every cusp line of index
\* 0, 3, 6, 9 has the first, fourth, seventh, tenth house color, every other
\* one the standard color.
C2_TwelvePerChart ==
  HousesDone =>
    LET path   == out.val
        charts == IF IsDual(args.chart_type) THEN 2 ELSE 1
    IN  /\ Len(SelectSeq(path, IsPrimaryCusp)) = 12
        /\ Len(SelectSeq(path, IsPrimaryLabel)) = 12
        /\ Len(SelectSeq(path, IsCusp)) = 12 * charts
        /\ Len(SelectSeq(path, IsLabel)) = 12 * charts
        /\ Len(path) = 24 * charts
        /\ InHouseOrder(path, args, 2 * charts)

\* C2 witness: a Synastry chart was drawn, with 48 fragments, the primary cusp
\* line of house index 9 in the tenth house color
C2_Witness ==
  /\ HousesDone
  /\ args.chart_type = "Synastry"
  /\ Len(out.val) = 48
  /\ IsPrimaryCusp(out.val[4 * 9 + 3])
  /\ out.val[4 * 9 + 3].stroke = args.tenth_house_color

(***************************************************************************)
(* C10                                                                     *)
(***************************************************************************)
\* the dropins of the primary house-number labels of a path
PrimaryLabelDropins(path) ==
  { path[j].at.shift : j \in { k \in 1 .. Len(path) : IsPrimaryLabel(path[k]) } }

\* C10 (as stated): the dropin of the primary house-number label is one of
\* 160, 72, 36 for Synastry and Transit, 100 for ExternalNatal and 48 for
\* Natal, whatever c1 and c3 are.
C10_Original ==
  HousesDone =>
    PrimaryLabelDropins(out.val) \subseteq
      CASE IsDual(args.chart_type)            -> { 160, 72, 36 }
        [] args.chart_type = "ExternalNatal"  -> { 100 }
        [] OTHER                              -> { 48 }

\* C10 (amended): the dropin of the primary house-number label is 84 for
\* Synastry and Transit, 100 for ExternalNatal and 48 for Natal, whatever c1
\* and c3 are (160, 72 and 36 place the cusp lines of a Synastry or Transit
\* chart, not its labels).
C10_LabelDropinByChartType ==
  HousesDone =>
    /\ PrimaryLabelDropins(out.val) =
         CASE IsDual(args.chart_type)            -> { 84 }
           [] args.chart_type = "ExternalNatal"  -> { 100 }
           [] OTHER                              -> { 48 }
    /\ \A j \in 1 .. Len(out.val) :
         IsPrimaryLabel(out.val[j]) =>
           out.val[j].at.radius = args.r - out.val[j].at.shift

\* C10 witness: a Transit chart drawn with c1 = 56 and c3 = 112 has its primary
\* labels at dropin 84
C10_Witness ==
  /\ HousesDone
  /\ args.chart_type = "Transit"
  /\ args.c1 = 56
  /\ args.c3 = 112
  /\ PrimaryLabelDropins(out.val) = { 84 }

(***************************************************************************)
(* C6                                                                      *)
(***************************************************************************)
Returned == pc = "done" \/ pc = "raised"

\* C6: draw_first_circle (draw_second_circle) raises exactly when the chart
\* type is neither Synastry nor Transit and c1 (c2) is None, and otherwise
\* returns a circle of radius r - 36 (r - 72) for Synastry and Transit and
\* r - c1 (r - c2) for the other chart types;
\* draw_houses_cusps_and_text_number raises exactly when the chart type is
\* Synastry or Transit and the second cusp list is None, and then returns no
\* markup.
C6_RaisesIffRequiredMissing ==
  Returned =>
    LET dual == args.chart_type \in { "Synastry", "Transit" }
    IN  /\ fn = "draw_first_circle" =>
             /\ pc = "raised" <=> (~dual /\ args.c1 = None)
             /\ pc = "raised" => out = KerykeionException("c1 is None")
             /\ pc = "done" =>
                  out.val.r = IF dual THEN args.r - 36 ELSE args.r - args.c1.val
        /\ fn = "draw_second_circle" =>
             /\ pc = "raised" <=> (~dual /\ args.c2 = None)
             /\ pc = "raised" => out = KerykeionException("c2 is None")
             /\ pc = "done" =>
                  out.val.r = IF dual THEN args.r - 72 ELSE args.r - args.c2.val
        /\ fn = "draw_houses_cusps_and_text_number" =>
             /\ pc = "raised" <=> (dual /\ args.second_subject_houses_list_ut = None)
             /\ pc = "raised" =>
                  out = KerykeionException("second_subject_houses_list is None")
             /\ pc = "done" => out.some /\ Len(out.val) > 0

\* C6 witness: draw_first_circle has raised for an ExternalNatal chart without
\* c1
C6_Witness ==
  /\ fn = "draw_first_circle"
  /\ pc = "raised"
  /\ args.chart_type = "ExternalNatal"
  /\ args.c1 = None

(***************************************************************************)
(* draw_transit_ring_degree_steps, draw_degree_ring                        *)
(***************************************************************************)
\* mutant: the offset is not brought back into the circle
TickOffset_NoWrap(i, seventh_house_degree_ut) ==
  Deg(i * 5) - seventh_house_degree_ut

\* offset = float(i * 5) - seventh_house_degree_ut, corrected once by 360
TickOffset(i, seventh_house_degree_ut) ==
  LET offset == Deg(i * 5) - seventh_house_degree_ut
  IN  IF offset < 0 THEN offset + FullTurn
      ELSE IF offset > FullTurn THEN offset - FullTurn
      ELSE offset

Line(p1, p2, stroke) == [node |-> "line", p1 |-> p1, p2 |-> p2, stroke |-> stroke]

\* the 72 lines of draw_transit_ring_degree_steps
TransitRingSteps(a) ==
  [ k \in 1 .. 72 |->
      LET offset == TickOffset(k - 1, a.seventh_house_degree_ut)
      IN  Line(Point(0, a.r, offset, 0), Point(0, a.r + 2, offset, -2), "#F00") ]

\* the 72 lines of draw_degree_ring
DegreeRing(a) ==
  [ k \in 1 .. 72 |->
      LET offset == TickOffset(k - 1, a.seventh_house_degree_ut)
      IN  Line(Point(0, a.r - a.c1, offset, a.c1),
               Point(0, a.r + 2 - a.c1, offset, (-2) + a.c1),
               a.stroke_color) ]

\* reference cusps: all of [0,360), and the 10 degrees from 360 on, which the
\* renderers accept and do not validate
Sevenths == 0 .. (FullTurn + Deg(10))

InitTicks ==
  /\ pc = "call"
  /\ out = None
  /\ \/ /\ fn = "draw_transit_ring_degree_steps"
        /\ args \in [ r : Radii, seventh_house_degree_ut : Sevenths ]
     \/ /\ fn = "draw_degree_ring"
        /\ args \in [ r : Radii, c1 : C1Values, seventh_house_degree_ut : Sevenths,
                      stroke_color : { "stroke_color" } ]

CallTransitRingSteps ==
  /\ fn = "draw_transit_ring_degree_steps"
  /\ pc = "call"
  /\ out' = Some(TransitRingSteps(args))
  /\ pc' = "done"
  /\ UNCHANGED <<fn, args>>

CallDegreeRing ==
  /\ fn = "draw_degree_ring"
  /\ pc = "call"
  /\ out' = Some(DegreeRing(args))
  /\ pc' = "done"
  /\ UNCHANGED <<fn, args>>

\* the renderers that normalise an offset by one correction of 360
InitOffsets == InitTicks \/ InitHouses

NextOffsets == CallTransitRingSteps \/ CallDegreeRing \/ CallHouses

SpecOffsets == InitOffsets /\ [][NextOffsets]_vars

(***************************************************************************)
(* C8                                                                      *)
(***************************************************************************)
TicksDone ==
  /\ fn \in { "draw_transit_ring_degree_steps", "draw_degree_ring" }
  /\ pc = "done"

InCircle(offset) == 0 <= offset /\ offset <= FullTurn

\* the overlay chart's cusp lines are the ones that are not dashed
IsOverlayCusp(f) == IsCusp(f) /\ f.dash = "none"

\* C8: whenever all cusp inputs lie in [0,360), every offset normalised by a
\* single correction of 360 lies in [0,360]: each of the 72 tick offsets of
\* draw_degree_ring and draw_transit_ring_degree_steps, and each of the 12
\* overlay cusp offsets of draw_houses_cusps_and_text_number.
C8_OffsetsInCircle ==
  /\ (TicksDone /\ args.seventh_house_degree_ut \in Degrees) =>
       /\ Len(out.val) = 72
       /\ \A k \in 1 .. 72 :
            /\ InCircle(out.val[k].p1.offset)
            /\ out.val[k].p2.offset = out.val[k].p1.offset
  /\ (/\ HousesDone
      /\ IsDual(args.chart_type)
      /\ \A k \in 1 .. 12 :
           /\ args.first_subject_houses_list_ut[k] \in Degrees
           /\ args.second_subject_houses_list_ut.val[k] \in Degrees) =>
       /\ Len(SelectSeq(out.val, IsOverlayCusp)) = 12
       /\ \A j \in 1 .. Len(out.val) :
            IsOverlayCusp(out.val[j]) =>
              /\ InCircle(out.val[j].p1.offset)
              /\ out.val[j].p2.offset = out.val[j].p1.offset

\* C8 witness: an overlay cusp at 0 degrees over a primary chart whose seventh
\* cusp is at 0 degrees was drawn at the uncorrected offset 360, the closed
\* end of [0,360]
C8_Witness ==
  /\ HousesDone
  /\ IsDual(args.chart_type)
  /\ args.first_subject_houses_list_ut[7] = 0
  /\ args.second_subject_houses_list_ut.val[1] = 0
  /\ IsOverlayCusp(out.val[2])
  /\ out.val[2].p1.offset = FullTurn

(***************************************************************************)
(* draw_zodiac_slice                                                       *)
(***************************************************************************)
ZodiacSlice(a) ==
  LET offset  == FullTurn - a.seventh_house_degree_ut
      dropin  == IF IsDual(a.chart_type) THEN 0 ELSE a.c1
      offset2 == offset + Deg(15)
      dropin2 == IF IsDual(a.chart_type) THEN 54 ELSE 18 + a.c1
  IN  << [node  |-> "path",
          m     |-> << a.r, a.r >>,
          l     |-> Point(a.num, a.r - dropin, offset, dropin),
          a     |-> Point(a.num + 1, a.r - dropin, offset, dropin),
          style |-> a.style],
         [node  |-> "use",
          at    |-> Point(a.num, a.r - dropin2, offset2, dropin2),
          href  |-> a.type] >>

\* the reference cusps and positions of the zodiac and aspect-line calls
Positions == Ascendants \cup { Deg(45), Deg(270) + 1 }

InitZodiac ==
  /\ fn = "draw_zodiac_slice"
  /\ pc = "call"
  /\ out = None
  /\ args \in [ c1 : C1Values, chart_type : ChartTypes,
                seventh_house_degree_ut : Positions, num : 0 .. 11,
                r : Radii, style : { "style" }, type : { "sign" } ]

CallZodiacSlice ==
  /\ fn = "draw_zodiac_slice"
  /\ pc = "call"
  /\ out' = Some(ZodiacSlice(args))
  /\ pc' = "done"
  /\ UNCHANGED <<fn, args>>

(***************************************************************************)
(* draw_aspect_line                                                        *)
(***************************************************************************)
AspectOffset(seventh_house_degree_ut, abs_pos) ==
  (-int(seventh_house_degree_ut)) + int(abs_pos)

AspectLine(a) ==
  LET first_offset  == AspectOffset(a.seventh_house_degree_ut, a.aspect_dict.p1_abs_pos)
      second_offset == AspectOffset(a.seventh_house_degree_ut, a.aspect_dict.p2_abs_pos)
  IN  [node               |-> "Aspect",
       to                 |-> a.aspect_dict.p1_name,
       tooriginaldegrees  |-> a.aspect_dict.p1_abs_pos,
       from               |-> a.aspect_dict.p2_name,
       fromoriginaldegrees |-> a.aspect_dict.p2_abs_pos,
       p1                 |-> Point(0, a.ar, first_offset, a.r - a.ar),
       p2                 |-> Point(0, a.ar, second_offset, a.r - a.ar),
       stroke             |-> a.color]

InitAspectLine ==
  /\ fn = "draw_aspect_line"
  /\ pc = "call"
  /\ out = None
  /\ args \in [ r : Radii, ar : { 120, 168 },
                aspect_dict : [ p1_name : { "Sun" }, p1_abs_pos : Positions,
                                p2_name : { "Moon" }, p2_abs_pos : Positions ],
                color : { "color" },
                seventh_house_degree_ut : Positions ]

CallAspectLine ==
  /\ fn = "draw_aspect_line"
  /\ pc = "call"
  /\ out' = Some(AspectLine(args))
  /\ pc' = "done"
  /\ UNCHANGED <<fn, args>>

\* every renderer that rotates by the reference cusp
InitFrame == InitZodiac \/ InitTicks \/ InitAspectLine \/ InitHouses

NextFrame ==
  \/ CallZodiacSlice
  \/ CallTransitRingSteps
  \/ CallDegreeRing
  \/ CallAspectLine
  \/ CallHouses

SpecFrame == InitFrame /\ [][NextFrame]_vars

(***************************************************************************)
(* C7                                                                      *)
(***************************************************************************)
\* x and y are the same angle of the circle
Congruent(x, y) == (x - y) % FullTurn = 0

\* the k-th primary and the k-th overlay cusp line of a path
PrimaryCusps(path) == SelectSeq(path, IsPrimaryCusp)

OverlayCusps(path) == SelectSeq(path, IsOverlayCusp)

\* C7: for one chart with reference cusp c = primary cusp[6] in [0,360), whole
\* or fractional, every renderer draws an absolute position p at an angle
\* congruent modulo 360 to p - c: draw_zodiac_slice, draw_degree_ring,
\* draw_transit_ring_degree_steps, draw_aspect_line, and
\* draw_houses_cusps_and_text_number for primary and for overlay cusps; so a
\* primary cusp and an overlay cusp at the same absolute degree are drawn at
\* the same angle.
C7_SharedRotation ==
  /\ (fn = "draw_zodiac_slice" /\ pc = "done"
        /\ args.seventh_house_degree_ut \in Degrees) =>
       /\ Congruent(Radial(out.val[1].l),
                    Deg(30) * args.num - args.seventh_house_degree_ut)
       /\ Congruent(Radial(out.val[1].a),
                    Deg(30) * (args.num + 1) - args.seventh_house_degree_ut)
  /\ (TicksDone /\ args.seventh_house_degree_ut \in Degrees) =>
       \A k \in 1 .. 72 :
         Congruent(Radial(out.val[k].p1),
                   Deg(5 * (k - 1)) - args.seventh_house_degree_ut)
  /\ (fn = "draw_aspect_line" /\ pc = "done"
        /\ args.seventh_house_degree_ut \in Degrees) =>
       /\ Congruent(Radial(out.val.p1),
                    args.aspect_dict.p1_abs_pos - args.seventh_house_degree_ut)
       /\ Congruent(Radial(out.val.p2),
                    args.aspect_dict.p2_abs_pos - args.seventh_house_degree_ut)
  /\ HousesDone =>
       LET first == args.first_subject_houses_list_ut
           c     == first[7]
       IN  /\ \A k \in 1 .. 12 :
                 Congruent(Radial(PrimaryCusps(out.val)[k].p1), first[k] - c)
           /\ IsDual(args.chart_type) =>
                LET second == args.second_subject_houses_list_ut.val
                IN  \A k \in 1 .. 12 :
                      /\ Congruent(Radial(OverlayCusps(out.val)[k].p1), second[k] - c)
                      /\ second[k] = first[k] =>
                           Congruent(Radial(OverlayCusps(out.val)[k].p1),
                                     Radial(PrimaryCusps(out.val)[k].p1))

(***************************************************************************)
(* draw_aspect_grid                                                        *)
(***************************************************************************)
\* the grid's origin and cell size
xindent0 == 380

yindent0 == 468

box == 14

Rect(x, y) == [node |-> "rect", x |-> x, y |-> y, width |-> box, height |-> box]

\* the planet glyph of a header cell, drawn under scale(0.4) at
\* ((xindent + 2) * 2.5, (yindent + 1) * 2.5); x2 and y2 are twice these values
HeaderUse(x, y, name) ==
  [node |-> "use", transform |-> "scale(0.4)",
   x2 |-> (x + 2) * 5, y2 |-> (y + 1) * 5, href |-> name]

\* the aspect glyph #orb<aspect_degrees>
OrbUse(x, y, degrees) ==
  [node |-> "use", transform |-> "none", x |-> x, y |-> y,
   href |-> << "orb", degrees >>]

\* actual_planets
ActualPlanets(available_planets_list) ==
  SelectSeq(available_planets_list, LAMBDA planet : planet.is_active)

\* l[::-1]
Reversed(l) == [ k \in 1 .. Len(l) |-> l[Len(l) + 1 - k] ]

\* mutant: the active planets are taken in input order
ReversPlanets_InputOrder(available_planets_list) ==
  ActualPlanets(available_planets_list)

\* first_iteration_revers_planets
ReversPlanets(available_planets_list) ==
  Reversed(ActualPlanets(available_planets_list))

\* mutant: an aspect is matched only from the row's planet to the column's
AspectMatches_OneWay(aspect, a, b) ==
  aspect.p1 = a.id /\ aspect.p2 = b.id

\* the test of the innermost loop
AspectMatches(aspect, a, b) ==
  \/ aspect.p1 = a.id /\ aspect.p2 = b.id
  \/ aspect.p1 = b.id /\ aspect.p2 = a.id

\* for aspect in aspects_list: the glyphs of the cell of a and b; xorb has
\* already been advanced by box
RECURSIVE CellGlyphs(_, _, _, _, _)
CellGlyphs(aspects, a, b, xorb, yorb) ==
  IF aspects = << >> THEN << >>
  ELSE (IF AspectMatches(Head(aspects), a, b)
          THEN << OrbUse(xorb - box + 1, yorb + 1, Head(aspects).aspect_degrees) >>
          ELSE << >>)
       \o CellGlyphs(Tail(aspects), a, b, xorb, yorb)

\* for b in second_iteration_revers_planets
RECURSIVE RowCells(_, _, _, _, _)
RowCells(a, bs, xorb, yorb, aspects) ==
  IF bs = << >> THEN << >>
  ELSE << Rect(xorb, yorb) >>
       \o CellGlyphs(aspects, a, Head(bs), xorb + box, yorb)
       \o RowCells(a, Tail(bs), xorb + box, yorb, aspects)

\* for index, a in enumerate(first_iteration_revers_planets), index from 0
RECURSIVE GridRows(_, _, _, _, _)
GridRows(revers, index, xindent, yindent, aspects) ==
  IF index >= Len(revers) THEN << >>
  ELSE LET a       == revers[index + 1]
           xindent1 == xindent + box
           yindent1 == yindent - box
           xorb    == xindent1
           yorb    == yindent1 + box
       IN  << Rect(xindent, yindent), HeaderUse(xindent, yindent, a.name) >>
           \o RowCells(a, SubSeq(revers, index + 2, Len(revers)), xorb, yorb, aspects)
           \o GridRows(revers, index + 1, xindent1, yindent1, aspects)

AspectGrid(a) ==
  GridRows(ReversPlanets(a.available_planets_list), 0, xindent0, yindent0,
           a.aspects_list)

PlanetNames == << "Sun", "Moon", "Mercury", "Venus", "Mars", "Jupiter", "Saturn" >>

\* the planet at place k of a planet list: ids identify planets, and the code
\* only compares them for equality, so the planet at place k has id k - 1
Planet(k, active) == [id |-> k - 1, name |-> PlanetNames[k], is_active |-> active]

PlanetLists ==
  UNION { { [ k \in 1 .. n |-> Planet(k, flags[k]) ] : flags \in [1 .. n -> BOOLEAN] }
          : n \in 0 .. MaxPlanets }

\* the aspect angles of the glyphs
AspectDegrees == { 90, 120 }

\* an aspect relates two different bodies, which may be absent from the planet
\* list or inactive in it
Aspects ==
  { e \in [ p1 : 0 .. (MaxPlanets - 1), p2 : 0 .. (MaxPlanets - 1),
            aspect_degrees : AspectDegrees ] : e.p1 # e.p2 }

AspectLists == UNION { [1 .. n -> Aspects] : n \in 0 .. MaxAspects }

InitGrid ==
  /\ fn = "draw_aspect_grid"
  /\ pc = "call"
  /\ out = None
  /\ args \in [ stroke_color : { "stroke_color" },
                available_planets_list : PlanetLists,
                aspects_list : AspectLists ]

CallAspectGrid ==
  /\ fn = "draw_aspect_grid"
  /\ pc = "call"
  /\ out' = Some(AspectGrid(args))
  /\ pc' = "done"
  /\ UNCHANGED <<fn, args>>

NextGrid == CallAspectGrid

SpecGrid == InitGrid /\ [][NextGrid]_vars

(***************************************************************************)
(* C4                                                                      *)
(***************************************************************************)
GridDone == fn = "draw_aspect_grid" /\ pc = "done"

IsRect(e) == e.node = "rect"

IsHeaderUse(e) == e.node = "use" /\ e.transform = "scale(0.4)"

IsOrbUse(e) == e.node = "use" /\ e.transform = "none"

\* the active planets of the input, in input order
ActiveOf(planets) == SelectSeq(planets, LAMBDA p : p.is_active)

\* the places of all rectangles of a grid
RectPlaces(grid) ==
  { << grid[j].x, grid[j].y >> : j \in { i \in 1 .. Len(grid) : IsRect(grid[i]) } }

\* the place the claim gives the header cell of row k, and the pair cell j of
\* row k (both counted from 0)
HeaderPlace(k) == << 380 + 14 * k, 468 - 14 * k >>

PairPlace(k, j) == << 380 + 14 * (k + 1 + j), 468 - 14 * k >>

\* C4: draw_aspect_grid lays out a triangular matrix over the n active planets
\* only, in reverse of input order: the k-th header cell (k = 0..n-1) belongs
\* to the (n-1-k)-th active planet of the input and sits at
\* (380 + 14k, 468 - 14k), row k holds exactly n-1-k pair cells to the right of
\* its header, so the grid has n(n+1)/2 rectangles, no two at the same place,
\* and inactive planets contribute no rectangle.
C4_TriangularGrid ==
  GridDone =>
    LET grid    == out.val
        active  == ActiveOf(args.available_planets_list)
        n       == Len(active)
        headers == { j \in 1 .. Len(grid) : IsHeaderUse(grid[j]) }
        rects   == SelectSeq(grid, IsRect)
    IN  /\ Cardinality(headers) = n
        /\ \A k \in 0 .. (n - 1) :
             \E j \in headers :
               /\ grid[j].href = active[n - k].name
               /\ IsRect(grid[j - 1])
               /\ << grid[j - 1].x, grid[j - 1].y >> = HeaderPlace(k)
               /\ Cardinality({ h \in headers : h < j }) = k
        /\ RectPlaces(grid) =
             { HeaderPlace(k) : k \in 0 .. (n - 1) }
               \cup UNION { { PairPlace(k, j) : j \in 0 .. (n - 2 - k) }
                            : k \in 0 .. (n - 1) }
        /\ Len(rects) = (n * (n + 1)) \div 2
        /\ Cardinality(RectPlaces(grid)) = Len(rects)

\* C4 witness: three planets, the second inactive, give a grid of three
\* rectangles whose first header is the third planet's
C4_Witness ==
  /\ GridDone
  /\ Len(args.available_planets_list) = 3
  /\ ~args.available_planets_list[2].is_active
  /\ Len(SelectSeq(out.val, IsRect)) = 3
  /\ IsHeaderUse(out.val[2])
  /\ out.val[2].href = args.available_planets_list[3].name

(***************************************************************************)
(* C3                                                                      *)
(***************************************************************************)
\* the ids of the active planets
ActiveIds(planets) ==
  { planets[k].id : k \in { i \in 1 .. Len(planets) : planets[i].is_active } }

\* the row of an active planet: the number of active planets after it in the
\* input
RowOf(planets, id) ==
  Cardinality({ k \in 1 .. Len(planets) :
                  /\ planets[k].is_active
                  /\ \E i \in 1 .. (k - 1) : planets[i].id = id })

\* the cell of the unordered pair of active planets p and q: in the row of the
\* one that comes later in the input, in the column of the other
CellPlace(planets, p, q) ==
  LET rp == RowOf(planets, p)
      rq == RowOf(planets, q)
      ka == IF rp < rq THEN rp ELSE rq
      kb == IF rp < rq THEN rq ELSE rp
  IN  << 380 + 14 * kb, 468 - 14 * ka >>

\* the aspect entries between two distinct active planets
Drawable(planets, aspects) ==
  { k \in 1 .. Len(aspects) :
      /\ aspects[k].p1 # aspects[k].p2
      /\ aspects[k].p1 \in ActiveIds(planets)
      /\ aspects[k].p2 \in ActiveIds(planets) }

\* C3: a glyph reference #orb<aspect_degrees> is emitted exactly once for each
\* aspect entry whose p1 and p2 are the ids of two distinct active planets, in
\* either order, placed in the cell of that unordered pair, and none for an
\* entry that involves an inactive planet.
C3_OneGlyphPerActiveAspect ==
  GridDone =>
    LET grid     == out.val
        planets  == args.available_planets_list
        aspects  == args.aspects_list
        glyphs   == { j \in 1 .. Len(grid) : IsOrbUse(grid[j]) }
        drawable == Drawable(planets, aspects)
    IN  /\ Cardinality(glyphs) = Cardinality(drawable)
        /\ \A p, q \in ActiveIds(planets) : \A d \in AspectDegrees :
             p # q =>
               Cardinality({ j \in glyphs :
                               /\ grid[j].x = CellPlace(planets, p, q)[1] + 1
                               /\ grid[j].y = CellPlace(planets, p, q)[2] + 1
                               /\ grid[j].href = << "orb", d >> })
               = Cardinality({ k \in drawable :
                                 /\ { aspects[k].p1, aspects[k].p2 } = { p, q }
                                 /\ aspects[k].aspect_degrees = d })

\* C3 witness: planets [A active, B inactive, C active] and the one aspect
\* (A, C, 90) give exactly one glyph, orb90
C3_Witness ==
  /\ GridDone
  /\ Len(args.available_planets_list) = 3
  /\ args.available_planets_list[1].is_active
  /\ ~args.available_planets_list[2].is_active
  /\ args.available_planets_list[3].is_active
  /\ args.aspects_list = << [p1 |-> 0, p2 |-> 2, aspect_degrees |-> 90] >>
  /\ Len(SelectSeq(out.val, IsOrbUse)) = 1
  /\ SelectSeq(out.val, IsOrbUse)[1].href = << "orb", 90 >>

(***************************************************************************)
(* draw_elements_percentages                                               *)
(***************************************************************************)
\* Python's round() of the quotient n / d of two non-negative integers, d > 0:
\* to the nearest integer, a half to the even one
round(n, d) ==
  LET q == n \div d
      r == n % d
  IN  IF 2 * r < d THEN q
      ELSE IF 2 * r > d THEN q + 1
      ELSE IF q % 2 = 0 THEN q ELSE q + 1

\* int(round(100 * points / total))
Percentage(points, total) == round(100 * points, total)

Text(y, fill, label, percentage) ==
  [node |-> "text", y |-> y, fill |-> fill, label |-> label, percentage |-> percentage]

ElementsPercentages(a) ==
  LET total == a.fire_points + a.earth_points + a.air_points + a.water_points
  IN  << Text(0, "#ff6600", a.fire_label, Percentage(a.fire_points, total)),
         Text(12, "#6a2d04", a.earth_label, Percentage(a.earth_points, total)),
         Text(24, "#6f76d1", a.air_label, Percentage(a.air_points, total)),
         Text(36, "#630e73", a.water_label, Percentage(a.water_points, total)) >>

InitElements ==
  /\ fn = "draw_elements_percentages"
  /\ pc = "call"
  /\ out = None
  /\ args \in [ fire_label : { "Fire" }, fire_points : 0 .. MaxPoints,
                earth_label : { "Earth" }, earth_points : 0 .. MaxPoints,
                air_label : { "Air" }, air_points : 0 .. MaxPoints,
                water_label : { "Water" }, water_points : 0 .. MaxPoints ]

\* the division by total raises ZeroDivisionError when total is 0
CallElementsPercentages ==
  /\ fn = "draw_elements_percentages"
  /\ pc = "call"
  /\ IF args.fire_points + args.earth_points + args.air_points + args.water_points = 0
       THEN /\ pc' = "raised"
            /\ out' = [exception |-> "ZeroDivisionError", msg |-> "division by zero"]
       ELSE /\ pc' = "done"
            /\ out' = Some(ElementsPercentages(args))
  /\ UNCHANGED <<fn, args>>

NextElements == CallElementsPercentages

SpecElements == InitElements /\ [][NextElements]_vars

(***************************************************************************)
(* C5                                                                      *)
(***************************************************************************)
\* C5: draw_elements_percentages called with all four element totals equal to
\* zero returns markup showing 0% for all four labels and does not propagate a
\* division-by-zero fault.
C5_ZeroTotalsGuarded ==
  (/\ fn = "draw_elements_percentages"
   /\ Returned
   /\ args.fire_points = 0
   /\ args.earth_points = 0
   /\ args.air_points = 0
   /\ args.water_points = 0) =>
    /\ pc = "done"
    /\ Len(out.val) = 4
    /\ \A k \in 1 .. 4 : out.val[k].percentage = 0

(***************************************************************************)
(* The house-number labels                                                 *)
(***************************************************************************)
\* 12 cusps in [0,360) that follow each other by step, but for the house of
\* index wideAt, which is wide degrees wide (the house of index 11 takes what
\* is left of the circle)
SteppedList(asc, step, wideAt, wide) ==
  [ k \in 1 .. 12 |->
      (asc + step * (k - 1) + (IF k - 1 > wideAt THEN wide - step ELSE 0)) % FullTurn ]

\* cusp lists with one house of 180 degrees or more: the first house 180,
\* 180.5 or 200 degrees wide, or the last house 250 degrees wide
WideLists ==
  { SteppedList(asc, Deg(10), 0, wide) :
      asc \in { 0, Deg(270) + 1 }, wide \in { Deg(180), Deg(180) + 1, Deg(200) } }
    \cup { SteppedList(asc, Deg(10), 11, 0) : asc \in { 0, Deg(270) + 1 } }

LabelLists == HouseLists \cup WideLists

LabelsArgs ==
  [ r                             : Radii,
    first_subject_houses_list_ut  : LabelLists,
    standard_house_color          : { "standard_house_color" },
    first_house_color             : { "first_house_color" },
    tenth_house_color             : { "tenth_house_color" },
    seventh_house_color           : { "seventh_house_color" },
    fourth_house_color            : { "fourth_house_color" },
    c1                            : C1Values,
    c3                            : C3Values,
    chart_type                    : ChartTypes,
    second_subject_houses_list_ut : { None } \cup { Some(l) : l \in LabelLists } ]

InitLabels ==
  /\ fn = "draw_houses_cusps_and_text_number"
  /\ pc = "call"
  /\ args \in LabelsArgs
  /\ out = None

SpecLabels == InitLabels /\ [][NextHouses]_vars

(***************************************************************************)
(* C11                                                                     *)
(***************************************************************************)
\* how far the cusp after cusp i (the first one after the last) lies from
\* cusp i, going forward around the circle; i counted from 0
ForwardGap(l, i) == (l[((i + 1) % 12) + 1] - l[i + 1]) % FullTurn

\* consecutive cusps are less than 180 degrees apart going forward
NarrowHouses(l) ==
  \A i \in 0 .. 11 : l[i + 1] \in Degrees /\ ForwardGap(l, i) < Deg(180)

IsOverlayLabel(f) == IsLabel(f) /\ f.fill = "#00f"

\* the labels and cusp lines of one chart, in the order of the path, place the
\* label of every house i at the offset of its cusp line plus
\* int(degreeDiff(cusp[(i+1) mod 12], cusp[i]) / 2), which is the whole
\* degrees of half the way forward to the next cusp
LabelsAtMidpoint(labels, cusps, l) ==
  /\ Len(labels) = 12
  /\ Len(cusps) = 12
  /\ \A i \in 0 .. 11 :
       /\ labels[i + 1].text = i + 1
       /\ labels[i + 1].at.offset =
            cusps[i + 1].p1.offset
              + intHalf(degreeDiff(l[((i + 1) % 12) + 1], l[i + 1]))
       /\ labels[i + 1].at.offset - cusps[i + 1].p1.offset
            = intHalf(ForwardGap(l, i))

\* C11: for every house index i in 0..11 and every 12-element cusp list with
\* values in [0,360) whose consecutive cusps (cyclically) are less than 180
\* degrees apart going forward, the house-number label of house i is placed at
\* the angular midpoint between cusp[i] and cusp[(i+1) mod 12]: its offset is
\* the cusp-line offset of house i plus
\* int(degreeDiff(cusp[(i+1) mod 12], cusp[i]) / 2); the same holds for the
\* overlay chart's labels in Synastry and Transit.
C11_LabelAtMidpoint ==
  HousesDone =>
    /\ NarrowHouses(args.first_subject_houses_list_ut) =>
         LabelsAtMidpoint(SelectSeq(out.val, IsPrimaryLabel),
                          SelectSeq(out.val, IsPrimaryCusp),
                          args.first_subject_houses_list_ut)
    /\ (IsDual(args.chart_type)
          /\ NarrowHouses(args.second_subject_houses_list_ut.val)) =>
         LabelsAtMidpoint(SelectSeq(out.val, IsOverlayLabel),
                          SelectSeq(out.val, IsOverlayCusp),
                          args.second_subject_houses_list_ut.val)

\* C11 witness: a Synastry chart of two cusp lists with houses narrower than
\* 180 degrees was drawn; the last cusp of the primary list lies at a higher
\* degree than the first, 25.5 degrees before it, and the label of house 12
\* sits 12 degrees after its cusp line
C11_Witness ==
  /\ HousesDone
  /\ args.chart_type = "Synastry"
  /\ NarrowHouses(args.first_subject_houses_list_ut)
  /\ NarrowHouses(args.second_subject_houses_list_ut.val)
  /\ args.first_subject_houses_list_ut[12] > args.first_subject_houses_list_ut[1]
  /\ ForwardGap(args.first_subject_houses_list_ut, 11) = Deg(30) - 9
  /\ SelectSeq(out.val, IsPrimaryLabel)[12].at.offset
       = SelectSeq(out.val, IsPrimaryCusp)[12].p1.offset + Deg(12)

(***************************************************************************)
(* convert_decimal_to_degree_string, convert_latitude_coordinate_to_string,*)
(* convert_longitude_coordinate_to_string                                  *)
(*                                                                         *)
(* A value of n / Resolution degrees is the integer n; the float           *)
(* arithmetic of the code is modelled exactly.                             *)
(***************************************************************************)
\* int(dec) of a non-negative value: its whole degrees
WholeDegrees(n) == n \div Resolution

\* (dec - float(a)) * 60.0, the minutes left after the whole degrees, as a
\* numerator over Resolution
MinutesOver(n) == (n % Resolution) * 60

\* int(a_new): the whole minutes
WholeMinutes(n) == MinutesOver(n) \div Resolution

\* int(round(a_new)): the rounded minutes
RoundedMinutes(n) == round(MinutesOver(n), Resolution)

\* int(round((a_new - float(b)) * 60.0)): the rounded seconds left after the
\* whole minutes
RoundedSeconds(n) == round((MinutesOver(n) % Resolution) * 60, Resolution)

\* the a, b, c written into the string of the given type
DegreeString(dec, type) ==
  IF type = "3"
    THEN [deg |-> WholeDegrees(dec), min |-> WholeMinutes(dec),
          sec |-> RoundedSeconds(dec)]
  ELSE IF type = "2"
    THEN [deg |-> WholeDegrees(dec), min |-> RoundedMinutes(dec)]
  ELSE [deg |-> WholeDegrees(dec)]

\* deg, min, sec and the label of the sign of a latitude or longitude
CoordinateString(coord, positive_label, negative_label) ==
  LET sign == IF coord < 0 THEN negative_label ELSE positive_label
      c    == IF coord < 0 THEN Abs(coord) ELSE coord
  IN  [deg |-> WholeDegrees(c), min |-> WholeMinutes(c),
       sec |-> RoundedSeconds(c), sign |-> sign]

\* the non-negative values of [0, MaxCoord)
Decimals == 0 .. (MaxCoord * Resolution - 1)

\* the coordinates of (-1, 1)
Coordinates == (1 - Resolution) .. (Resolution - 1)

InitFormat ==
  /\ pc = "call"
  /\ out = None
  /\ \/ /\ fn = "convert_decimal_to_degree_string"
        /\ args \in [ dec : Decimals, type : { "1", "2", "3", "4" } ]
     \/ /\ fn = "convert_latitude_coordinate_to_string"
        /\ args \in [ coord : Coordinates, north_label : { "N" }, south_label : { "S" } ]
     \/ /\ fn = "convert_longitude_coordinate_to_string"
        /\ args \in [ coord : Coordinates, east_label : { "E" }, west_label : { "W" } ]

CallConvertDecimal ==
  /\ fn = "convert_decimal_to_degree_string"
  /\ pc = "call"
  /\ IF args.type \in { "1", "2", "3" }
       THEN /\ pc' = "done"
            /\ out' = Some(DegreeString(args.dec, args.type))
       ELSE /\ pc' = "raised"
            /\ out' = KerykeionException("Wrong type")
  /\ UNCHANGED <<fn, args>>

CallConvertLatitude ==
  /\ fn = "convert_latitude_coordinate_to_string"
  /\ pc = "call"
  /\ out' = Some(CoordinateString(args.coord, args.north_label, args.south_label))
  /\ pc' = "done"
  /\ UNCHANGED <<fn, args>>

CallConvertLongitude ==
  /\ fn = "convert_longitude_coordinate_to_string"
  /\ pc = "call"
  /\ out' = Some(CoordinateString(args.coord, args.east_label, args.west_label))
  /\ pc' = "done"
  /\ UNCHANGED <<fn, args>>

NextFormat == CallConvertDecimal \/ CallConvertLatitude \/ CallConvertLongitude

SpecFormat == InitFormat /\ [][NextFormat]_vars

(***************************************************************************)
(* C12                                                                     *)
(***************************************************************************)
\* C12: for every non-negative input value, the sexagesimal strings of
\* convert_decimal_to_degree_string (types "2" and "3"),
\* convert_latitude_coordinate_to_string and
\* convert_longitude_coordinate_to_string have a minutes component in 0..59
\* and a seconds component in 0..59: rounding never yields a displayed 60.
C12_NoSixty ==
  /\ (fn = "convert_decimal_to_degree_string" /\ pc = "done" /\ args.dec >= 0) =>
       /\ args.type = "2" => out.val.min \in 0 .. 59
       /\ args.type = "3" => (out.val.min \in 0 .. 59 /\ out.val.sec \in 0 .. 59)
  /\ (/\ fn \in { "convert_latitude_coordinate_to_string",
                  "convert_longitude_coordinate_to_string" }
      /\ pc = "done"
      /\ args.coord >= 0) =>
       /\ out.val.min \in 0 .. 59
       /\ out.val.sec \in 0 .. 59

(***************************************************************************)
(* The whole module                                                        *)
(***************************************************************************)
Init ==
  \/ InitDiff
  \/ InitHouses
  \/ InitCircles
  \/ InitTicks
  \/ InitZodiac
  \/ InitAspectLine
  \/ InitGrid
  \/ InitElements
  \/ InitLabels
  \/ InitFormat

Next ==
  \/ CallDegreeDiff
  \/ CallHouses
  \/ CallFirstCircle
  \/ CallSecondCircle
  \/ CallTransitRingSteps
  \/ CallDegreeRing
  \/ CallZodiacSlice
  \/ CallAspectLine
  \/ CallAspectGrid
  \/ CallElementsPercentages
  \/ CallConvertDecimal
  \/ CallConvertLatitude
  \/ CallConvertLongitude

Spec == Init /\ [][Next]_vars

====
